---- MODULE Spec2Model ----
(***************************************************************************)
(* Model of src/scrap_chat_wiki.py: the batch that fetches Wikipedia        *)
(* articles, rewrites them through the Gemini API behind a client-side      *)
(* throttle and a retry loop, and saves original/generated file pairs.      *)
(*                                                                          *)
(* Time is counted in ticks of 1/8 second, the coarsest unit in which the   *)
(* waits of the program (1.5^k seconds for k <= 3, 2^k seconds, 60/rpm      *)
(* seconds, hints with a fraction of .5) are all whole numbers.             *)
(* The wall clock is kept as the two distances the program and the claims   *)
(* look at: elapsed = time.time() - _last_call_ts (line 135) and the time   *)
(* since generate_content was last called; both stop growing at MaxElapsed, *)
(* which lies above every 60/rpm the program compares elapsed with.         *)
(* Strings are sequences of one-character strings.                          *)
(***************************************************************************)
EXTENDS Integers, Sequences, FiniteSets, TLC

\* ---------------------------------------------------------------- bounds
MaxTopics == 2          \* length of the topic list of main()
MaxElapsed == 40        \* the two clocks are followed up to this many ticks
RecursionLimit == 2     \* nested get_wikipedia_article calls the interpreter allows
MaxLimit == 3           \* largest prompt limit of the runs with a small limit

\* ------------------------------------------------------ program constants
FREE_TIER_RPM == 15
MAX_CHARS_PROMPT == 12000
WikiRetries == 3
MaxRetries == 6
SlugMax == 100
\* a model name is a sequence of parts: "models/" and the rest
MODEL_PREF == << <<"gemini-1.5-flash">>, <<"gemini-1.5-flash-8b">>,
                <<"gemini-1.5-pro">>, <<"gemini-pro">> >>

Seconds(n) == n * 8

Min(a, b) == IF a <= b THEN a ELSE b

RECURSIVE Pow(_, _)
Pow(b, e) == IF e = 0 THEN 1 ELSE b * Pow(b, e - 1)

None == "None"          \* an unset name
NoText == <<>>          \* an unset string
NoData == [pages |-> "unset"]

\* ------------------------------------------------------------- strings
WordChars == {"a", "b", "_"}     \* \w
SpaceChars == {" "}              \* \s
SepChars == SpaceChars \cup {"_", "-"}

RECURSIVE Filter(_, _)
Filter(s, keep) ==
    IF s = <<>> THEN <<>>
    ELSE IF Head(s) \in keep THEN <<Head(s)>> \o Filter(Tail(s), keep)
    ELSE Filter(Tail(s), keep)

RECURSIVE LStrip(_, _)
LStrip(s, drop) ==
    IF s # <<>> /\ Head(s) \in drop THEN LStrip(Tail(s), drop) ELSE s

RECURSIVE RStrip(_, _)
RStrip(s, drop) ==
    IF s # <<>> /\ s[Len(s)] \in drop
    THEN RStrip(SubSeq(s, 1, Len(s) - 1), drop) ELSE s

\* str.strip(): leading and trailing whitespace removed
strip(s) == RStrip(LStrip(s, SpaceChars), SpaceChars)

\* re.sub(r"[\s_-]+", "_", s): every maximal run of separators becomes one "_"
RECURSIVE CollapseSeps(_)
CollapseSeps(s) ==
    IF s = <<>> THEN <<>>
    ELSE IF Head(s) \in SepChars THEN <<"_">> \o CollapseSeps(LStrip(s, SepChars))
    ELSE <<Head(s)>> \o CollapseSeps(Tail(s))

slugify(s) ==
    LET kept == Filter(s, WordChars \cup SpaceChars \cup {"-"})
        under == RStrip(LStrip(CollapseSeps(kept), {"_"}), {"_"})
    IN  SubSeq(under, 1, Min(Len(under), SlugMax))

TruncationMarker == <<"\n", "\n", "[", "T", "]">>

\* the cut without the marker
truncate_silently(text, max_chars) ==
    IF Len(text) <= max_chars THEN text ELSE SubSeq(text, 1, max_chars)

truncate_for_prompt(text, max_chars) ==
    IF Len(text) <= max_chars THEN text
    ELSE SubSeq(text, 1, max_chars) \o TruncationMarker

\* ------------------------------------------------ what the services answer
Titles == { <<"a">>, <<"a", "!">>, <<"b", " ", "a">> }

Extracts == { <<>>, <<"x", "y">> }

\* the topic list of main(): MaxTopics titles
articles == [i \in 1..MaxTopics |->
                IF i % 2 = 1 THEN <<"a">> ELSE <<"b", " ", "a">>]

\* answers of the extract query: no page collection, a missing page, or a page
ExtractAnswers ==
    { [pages |-> "none"], [pages |-> "missing"] } \cup
    { [pages |-> "found", title |-> t, extract |-> e] : t \in Titles, e \in Extracts }

\* answers of the opensearch query: data[1] empty (or absent), or one title
SearchAnswers ==
    { [titles |-> <<>>] } \cup { [titles |-> <<t>>] : t \in Titles }

\* what genai.list_models() may list: each model with its name and whether
\* "generateContent" is among its supported_generation_methods
ModelListings ==
    { {},
      { [name |-> <<"models/", "embedding-001">>, generate |-> FALSE] },
      { [name |-> <<"models/", "gemini-pro">>, generate |-> TRUE],
        [name |-> <<"models/", "gemini-1.5-pro">>, generate |-> TRUE],
        [name |-> <<"models/", "gemini-1.5-flash">>, generate |-> FALSE] },
      { [name |-> <<"models/", "aqa">>, generate |-> TRUE],
        [name |-> <<"models/", "gemini-pro">>, generate |-> FALSE] } }

\* the names above, without "models/", in the order sorted() puts them
SortedNames == << <<"aqa">>, <<"embedding-001">>, <<"gemini-1.5-flash">>,
                 <<"gemini-1.5-pro">>, <<"gemini-pro">> >>

\* what os.getenv("GEMINI_API_KEY") may give: None, "" or a key
ApiKeys == { None, "", "k" }

\* error messages of the generation service, as token sequences: the phrase
\* "retry in" (in either case), one whitespace character, a run of digits,
\* the decimal point, the letter s, any other text
KW == [k |-> "retry in"]
KWU == [k |-> "RETRY IN"]
WS == [k |-> "ws"]
Num(n) == [k |-> "num", v |-> n]
Dot == [k |-> "dot"]
S == [k |-> "s"]
Txt == [k |-> "txt"]

ErrorMessages ==
    { <<Txt>>,
      <<Txt, KW, WS, Num(0), S>>,
      <<KWU, WS, WS, Num(61), S, Txt>>,
      <<KW, WS, Num(12), Dot, Num(5), S>>,
      <<KW, WS, Num(5), WS, S>> }

\* str(RuntimeError("Resposta vazia do modelo."))
EmptyResponseMessage == <<Txt>>

\* how long a generate_content call may take, in ticks
Latencies == {0, 8}

\* what generate_content returns: a falsy response, a response without text,
\* a response with text
Responses ==
    { [kind |-> "none"], [kind |-> "notext"] } \cup
    { [kind |-> "text", text |-> t] : t \in { <<>>, <<" ">>, <<"x">>, <<" ", "x">> } }

VARIABLES
    enforce,        \* ENFORCE_CLIENT_THROTTLE
    rpm,            \* FREE_TIER_RPM as configured
    max_chars,      \* MAX_CHARS_PROMPT as configured
    api_key,        \* os.getenv("GEMINI_API_KEY")
    models,         \* what genai.list_models() lists
    model_name,     \* main: model_name
    requests,       \* generate_content calls of the current rewrite, per prompt
    elapsed,        \* time.time() - _last_call_ts, in ticks
    sinceGen,       \* ticks since generate_content was last called (-1: never)
    pc,             \* where the program is
    idx,            \* position of main()'s loop in the topic list
    results,        \* per finished topic: saved (and under which slug) or failed
    title,          \* get_wikipedia_article: the title looked up
    depth,          \* get_wikipedia_article: recursion depth
    searches,       \* search_wikipedia_title calls of the current fetch
    wiki_kind,      \* wiki_request: "extract" or "search"
    wiki_i,         \* wiki_request: loop index i
    data,           \* wiki_request: the answer returned
    norm_title,     \* collect_and_generate_for_title: norm_title
    original_text,  \* collect_and_generate_for_title: original_text
    prompt_text,    \* collect_and_generate_for_title: prompt_text
    variant,        \* generate_text_with_gemini: "primary" or "alternate" prompt
    attempt,        \* call_gemini_with_retry: attempt
    msg,            \* call_gemini_with_retry: str(e) of the failed attempt
    retry_s,        \* call_gemini_with_retry: retry_s, in ticks
    generated,      \* collect_and_generate_for_title: generated
    last_err,       \* the failure logged for the topic that just ended
    files           \* SAVE_DIR: file name -> content

vars == << enforce, rpm, max_chars, api_key, models, model_name, requests, elapsed, sinceGen, pc, idx, results, title, depth,
           searches, wiki_kind, wiki_i, data, norm_title, original_text,
           prompt_text, variant, attempt, msg, retry_s, generated, last_err,
           files >>

envVars == << enforce, rpm, max_chars, api_key, models >>
cfgVars == << envVars, model_name >>
clockVars == << elapsed, sinceGen >>
wikiVars == << title, depth, searches, wiki_kind, wiki_i, data >>
textVars == << norm_title, original_text, prompt_text >>
genVars == << variant, attempt, msg, retry_s, generated, requests >>

NoRequests == [v \in {"primary", "alternate"} |-> 0]

\* d ticks pass on a clock
Advance(clock, d) == IF clock < 0 THEN clock ELSE Min(clock + d, MaxElapsed)

\* time.sleep(d), or a call that takes d ticks
TimePasses(d) ==
    /\ elapsed' = Advance(elapsed, d)
    /\ sinceGen' = Advance(sinceGen, d)

\* everything but the configuration, as it is when main() is entered
InitProgram ==
    /\ api_key \in ApiKeys
    /\ models \in ModelListings
    /\ model_name = NoText
    /\ requests = NoRequests
    /\ elapsed = MaxElapsed
    /\ sinceGen = -1
    /\ pc = "start"
    /\ idx = 1
    /\ results = <<>>
    /\ title = NoText /\ depth = 0 /\ searches = 0
    /\ wiki_kind = None /\ wiki_i = 0 /\ data = NoData
    /\ norm_title = NoText /\ original_text = NoText /\ prompt_text = NoText
    /\ variant = None /\ attempt = 0 /\ msg = NoText /\ retry_s = 0
    /\ generated = NoText
    /\ last_err = ""
    /\ files = << >>

Init ==
    /\ enforce \in BOOLEAN
    /\ rpm \in {0, FREE_TIER_RPM, 60}
    /\ (enforce = FALSE => rpm = FREE_TIER_RPM)
    /\ max_chars = MAX_CHARS_PROMPT
    /\ InitProgram

\* ------------------------------------------------------------------ startup
\* ensure_gemini() without the test of line 38
EnsureGeminiUnchecked ==
    /\ pc = "start"
    /\ pc' = "pick_model"
    /\ UNCHANGED << cfgVars, clockVars, idx, results, wikiVars, textVars,
                    genVars, last_err, files >>

\* ensure_gemini(): line 38 raises when the key is None or empty
EnsureGemini ==
    /\ pc = "start"
    /\ pc' = IF api_key \in {None, ""} THEN "config_error" ELSE "pick_model"
    /\ UNCHANGED << cfgVars, clockVars, idx, results, wikiVars, textVars,
                    genVars, last_err, files >>

\* line 51: m.name.replace("models/", "")
RemoveModelsPrefix(name) == SelectSeq(name, LAMBDA part : part # "models/")

\* line 51: the names of the listed models that support generateContent
Available == { RemoveModelsPrefix(m.name) : m \in { x \in models : x.generate } }

\* the first element of seq that is in set
FirstIn(seq, set) ==
    seq[CHOOSE i \in 1..Len(seq) :
            seq[i] \in set /\ \A j \in 1..(i - 1) : seq[j] \notin set]

\* lines 52-56: the model pick_available_model returns when there is one
PickedModel(preferred) ==
    IF \E i \in 1..Len(preferred) : preferred[i] \in Available
    THEN FirstIn(preferred, Available)
    ELSE FirstIn(SortedNames, Available)

\* model_name = pick_available_model(MODEL_PREF); line 57 raises when no
\* model supports generateContent
PickModel ==
    /\ pc = "pick_model"
    /\ IF Available = {}
       THEN pc' = "config_error" /\ UNCHANGED model_name
       ELSE pc' = "main_loop" /\ model_name' = PickedModel(MODEL_PREF)
    /\ UNCHANGED << envVars, clockVars, idx, results, wikiVars, textVars,
                    genVars, last_err, files >>

\* ------------------------------------------------------------ orchestrator
\* the locals of one topic, as they are before the topic starts
ResetLocals ==
    /\ title' = NoText /\ depth' = 0 /\ searches' = 0
    /\ wiki_kind' = None /\ wiki_i' = 0 /\ data' = NoData
    /\ norm_title' = NoText /\ original_text' = NoText /\ prompt_text' = NoText
    /\ variant' = None /\ attempt' = 0 /\ msg' = NoText /\ retry_s' = 0
    /\ generated' = NoText
    /\ requests' = NoRequests

\* line 352: the loop of main() moves to the next topic
NextTopic ==
    /\ idx' = idx + 1
    /\ pc' = "main_loop"
    /\ ResetLocals

\* no except clause: the exception leaves main() and the run is over
FailTopicAborts(err) ==
    /\ results' = Append(results, [status |-> "failed", slug |-> NoText])
    /\ last_err' = err
    /\ idx' = idx
    /\ pc' = "done"
    /\ ResetLocals

\* lines 220-221: except Exception as e: print(...), and the topic is over
FailTopic(err) ==
    /\ results' = Append(results, [status |-> "failed", slug |-> NoText])
    /\ last_err' = err
    /\ NextTopic

\* lines 351-352, 214-216: the next topic enters get_wikipedia_article
StartTopic ==
    /\ pc = "main_loop"
    /\ idx <= Len(articles)
    /\ title' = articles[idx]
    /\ depth' = 0
    /\ searches' = 0
    /\ wiki_kind' = "extract"
    /\ wiki_i' = 0
    /\ last_err' = ""
    /\ pc' = "wiki_get"
    /\ UNCHANGED << cfgVars, clockVars, idx, results, data, textVars, genVars,
                    files >>

\* the loop of main() is over
EndRun ==
    /\ pc = "main_loop"
    /\ idx > Len(articles)
    /\ pc' = "done"
    /\ UNCHANGED << cfgVars, clockVars, idx, results, wikiVars, textVars,
                    genVars, last_err, files >>

\* ------------------------------------------------------------ wiki_request
WikiBackoffFlat(i) == (Seconds(1) * 3) \div 2

\* line 75 / 81: backoff ** (i + 1) with backoff = 1.5, in ticks
WikiBackoff(i) == (Seconds(1) * Pow(3, i + 1)) \div Pow(2, i + 1)

\* requests.get answered with HTTP 403, or raising (timeout, 5xx, bad JSON)
WikiGetFails ==
    /\ pc = "wiki_get"
    /\ pc' = "wiki_sleep"
    /\ UNCHANGED << cfgVars, clockVars, idx, results, wikiVars, textVars,
                    genVars, last_err, files >>

\* line 78: return resp.json()
WikiGetOk ==
    /\ pc = "wiki_get"
    /\ \/ /\ wiki_kind = "extract"
          /\ data' \in ExtractAnswers
          /\ pc' = "extract_done"
       \/ /\ wiki_kind = "search"
          /\ data' \in SearchAnswers
          /\ pc' = "search_done"
    /\ UNCHANGED << cfgVars, clockVars, idx, results, title, depth, searches,
                    wiki_kind, wiki_i, textVars, genVars, last_err, files >>

\* the loop of wiki_request as a while True: the attempts are not counted
WikiSleepForever ==
    /\ pc = "wiki_sleep"
    /\ TimePasses(WikiBackoff(wiki_i))
    /\ pc' = "wiki_get"
    /\ UNCHANGED << idx, results, wikiVars, textVars, genVars, last_err >>
    /\ UNCHANGED << cfgVars, files >>

\* the sleep after a failed attempt, then the next attempt or the RuntimeError
WikiSleep ==
    /\ pc = "wiki_sleep"
    /\ TimePasses(WikiBackoff(wiki_i))
    /\ IF wiki_i + 1 < WikiRetries
       THEN /\ wiki_i' = wiki_i + 1
            /\ pc' = "wiki_get"
            /\ UNCHANGED << idx, results, title, depth, searches, wiki_kind,
                            data, textVars, genVars, last_err >>
       ELSE FailTopic("wiki_exhausted")
    /\ UNCHANGED << cfgVars, files >>

\* --------------------------------------------------- get_wikipedia_article
\* lines 106 / 113: alt = search_wikipedia_title(title, lang)
CallSearch ==
    /\ searches' = searches + 1
    /\ wiki_kind' = "search"
    /\ wiki_i' = 0
    /\ data' = NoData
    /\ pc' = "wiki_get"
    /\ UNCHANGED << idx, results, title, depth, textVars, genVars, last_err >>

\* lines 109 / 116: return get_wikipedia_article(alt, ...)
Recurse(alt) ==
    IF depth + 1 > RecursionLimit
    THEN FailTopic("recursion")
    ELSE /\ title' = alt
         /\ depth' = depth + 1
         /\ wiki_kind' = "extract"
         /\ wiki_i' = 0
         /\ data' = NoData
         /\ pc' = "wiki_get"
         /\ UNCHANGED << idx, results, searches, textVars, genVars, last_err >>

BodyMissingNever(extract) == FALSE

\* line 120: not extract (a page without the key gives "", line 119)
BodyMissing(extract) == extract = <<>>

\* the article handed to save_texts with no rewrite in between
StartRewriteSkipped ==
    /\ norm_title' = data.title
    /\ original_text' = data.extract
    /\ prompt_text' = truncate_for_prompt(data.extract, max_chars)
    /\ pc' = "save_original"
    /\ title' = NoText /\ depth' = 0 /\ searches' = 0
    /\ wiki_kind' = None /\ wiki_i' = 0 /\ data' = NoData
    /\ UNCHANGED << idx, results, genVars, last_err >>

\* lines 122 and 216-218: get_wikipedia_article returns (its locals are gone),
\* the text is truncated and the rewrite starts with the primary prompt
StartRewrite ==
    /\ norm_title' = data.title
    /\ original_text' = data.extract
    /\ prompt_text' = truncate_for_prompt(data.extract, max_chars)
    /\ variant' = "primary"
    /\ attempt' = 1
    /\ pc' = "throttle"
    /\ title' = NoText /\ depth' = 0 /\ searches' = 0
    /\ wiki_kind' = None /\ wiki_i' = 0 /\ data' = NoData
    /\ UNCHANGED << idx, results, msg, retry_s, generated, requests, last_err >>

\* lines 104-122: the answer of the extract query
ExtractDone ==
    /\ pc = "extract_done"
    /\ IF data.pages \in {"none", "missing"}
       THEN CallSearch
       ELSE IF BodyMissing(data.extract)
            THEN FailTopic("no_content")
            ELSE StartRewrite
    /\ UNCHANGED << cfgVars, clockVars, files >>

\* a search without a hit is asked again instead of raising
SearchDoneRetries ==
    /\ pc = "search_done"
    /\ IF data.titles = <<>>
       THEN /\ pc' = "wiki_get"
            /\ data' = NoData
            /\ UNCHANGED << idx, results, title, depth, searches, wiki_kind,
                            wiki_i, textVars, genVars, last_err >>
       ELSE Recurse(data.titles[1])
    /\ UNCHANGED << cfgVars, clockVars, files >>

\* lines 87-88 and 107-109 / 114-116: the answer of the search
SearchDone ==
    /\ pc = "search_done"
    /\ IF data.titles = <<>>
       THEN FailTopic("not_found")
       ELSE Recurse(data.titles[1])
    /\ UNCHANGED << cfgVars, clockVars, files >>

\* ------------------------------------------------------------- the throttle
\* line 133: min_interval, in ticks
MinInterval == Seconds(60) \div rpm

\* the guard of line 131 without the ENFORCE_CLIENT_THROTTLE flag
ThrottlingIgnoresFlag == rpm > 0

\* line 131: the throttle is in force
Throttling == enforce /\ rpm > 0

\* the wait computed as the time already elapsed, not the time still missing
ThrottleWaitElapsed(el, min_interval) ==
    IF el < min_interval THEN el ELSE 0

\* lines 136-139: wait_s, 0 when no wait is needed
ThrottleWait(el, min_interval) ==
    IF el < min_interval THEN min_interval - el ELSE 0

\* _client_throttle_sleep(), the first statement of an attempt; line 140
\* sets _last_call_ts to the time after the wait
Throttle ==
    /\ pc = "throttle"
    /\ IF ~Throttling
       THEN UNCHANGED clockVars
       ELSE LET wait_s == ThrottleWait(elapsed, MinInterval)
            IN  /\ elapsed' = 0
                /\ sinceGen' = Advance(sinceGen, wait_s)
    /\ pc' = "generate"
    /\ UNCHANGED << cfgVars, idx, results, wikiVars, textVars, genVars,
                    last_err, files >>

\* ------------------------------------------------------------ retry policy
IsKeyword(tok) == tok.k \in {"retry in", "RETRY IN"}

\* the first position from i on that holds no whitespace
RECURSIVE SkipWs(_, _)
SkipWs(m, i) == IF i <= Len(m) /\ m[i].k = "ws" THEN SkipWs(m, i + 1) ELSE i

\* (?:\.[0-9]+)?s with the fraction present, after the digits at j
HasFraction(m, j) ==
    j + 3 <= Len(m) /\ m[j + 1].k = "dot" /\ m[j + 2].k = "num" /\ m[j + 3].k = "s"

\* the tokens from i on match  retry in\s+([0-9]+(?:\.[0-9]+)?)s
MatchAt(m, i) ==
    LET j == SkipWs(m, i + 1)
    IN  /\ IsKeyword(m[i])
        /\ j > i + 1
        /\ j <= Len(m)
        /\ m[j].k = "num"
        /\ \/ HasFraction(m, j)
           \/ (j + 1 <= Len(m) /\ m[j + 1].k = "s")

\* float(m.group(1)) in ticks; a fraction is one digit
GroupTicks(m, i) ==
    LET j == SkipWs(m, i + 1)
    IN  IF HasFraction(m, j)
        THEN Seconds(m[j].v) + (Seconds(m[j + 2].v) \div 10)
        ELSE Seconds(m[j].v)

\* <<ticks>> of the first match, <<>> for None
_parse_retry_seconds_from_error(err_msg) ==
    LET hits == { i \in 1..Len(err_msg) : MatchAt(err_msg, i) }
    IN  IF hits = {} THEN <<>>
        ELSE LET first == CHOOSE i \in hits : \A h \in hits : i <= h
             IN  << GroupTicks(err_msg, first) >>

\* the exponent taken as attempt, not attempt - 1
ExponentialBackoffOffByOne(n) == Seconds(Min(Pow(2, n), 60))

\* line 175: min(backoff ** (attempt - 1), 60.0) with backoff = 2.0, in ticks
ExponentialBackoff(n) == Seconds(Min(Pow(2, n - 1), 60))

\* the hint clamped to the cap of the heuristic
RetryDelayClamped(err_msg, n) ==
    LET hint == _parse_retry_seconds_from_error(err_msg)
    IN  IF hint # <<>> THEN Min(hint[1], Seconds(60)) ELSE Seconds(Min(Pow(2, n - 1), 60))

\* lines 172-175: retry_s
RetryDelay(err_msg, n) ==
    LET hint == _parse_retry_seconds_from_error(err_msg)
    IN  IF hint # <<>> THEN hint[1] ELSE ExponentialBackoff(n)

\* -------------------------------------------------- call_gemini_with_retry
\* line 166: not resp or not getattr(resp, "text", None)
IsEmptyResponse(resp) == resp.kind \in {"none", "notext"} \/ resp.text = <<>>

\* lines 169-177: the except clause up to the sleep
AttemptFailed(m) ==
    /\ msg' = m
    /\ retry_s' = RetryDelay(m, attempt)
    /\ pc' = "retry_sleep"
    /\ UNCHANGED << variant, attempt, generated >>

\* line 168: resp.text.strip()
ReturnedText(resp) == strip(resp.text)

\* line 165: the call is issued now and takes d ticks
CallIssued(d) ==
    /\ elapsed' = Advance(elapsed, d)
    /\ sinceGen' = Advance(0, d)
    /\ requests' = [requests EXCEPT ![variant] = @ + 1]

\* resp = model.generate_content(prompt) returns; lines 166-168, and lines
\* 193 / 197, 218: the text goes back to collect_and_generate_for_title
GenerateReturns ==
    /\ pc = "generate"
    /\ \E d \in Latencies : CallIssued(d)
    /\ \E resp \in Responses :
          IF IsEmptyResponse(resp)
          THEN AttemptFailed(EmptyResponseMessage)
          ELSE /\ generated' = ReturnedText(resp)
               /\ pc' = "save_original"
               /\ UNCHANGED << variant, attempt, msg, retry_s >>
    /\ UNCHANGED << cfgVars, idx, results, wikiVars, textVars, last_err, files >>

\* model.generate_content(prompt) raises
GenerateRaises ==
    /\ pc = "generate"
    /\ \E d \in Latencies : CallIssued(d)
    /\ \E m \in ErrorMessages : AttemptFailed(m)
    /\ UNCHANGED << cfgVars, idx, results, wikiVars, textVars, last_err, files >>

\* lines 194-197: the primary loop raised; the alternate prompt starts
StartAlternate ==
    /\ variant' = "alternate"
    /\ attempt' = 1
    /\ pc' = "throttle"
    /\ msg' = NoText /\ retry_s' = 0
    /\ UNCHANGED << idx, results, wikiVars, textVars, generated, requests, last_err >>

\* line 162: the next attempt of the same loop
NextAttempt ==
    /\ attempt' = attempt + 1
    /\ pc' = "throttle"
    /\ msg' = NoText /\ retry_s' = 0
    /\ UNCHANGED << idx, results, wikiVars, textVars, variant, generated, requests,
                    last_err >>

\* range(1, max_retries) in place of range(1, max_retries + 1)
LoopGoesOnShort == attempt + 1 < MaxRetries

\* range(1, max_retries + 2) in place of range(1, max_retries + 1)
LoopGoesOnLong == attempt < MaxRetries + 1

\* line 162: the loop goes on while attempt < max_retries
LoopGoesOn == attempt < MaxRetries

\* line 178, then the next attempt, or the RuntimeError of line 179 which
\* starts the alternate prompt or leaves generate_text_with_gemini
RetrySleep ==
    /\ pc = "retry_sleep"
    /\ TimePasses(retry_s)
    /\ IF LoopGoesOn
       THEN NextAttempt
       ELSE IF variant = "primary"
            THEN StartAlternate
            ELSE FailTopic("gen_exhausted")
    /\ UNCHANGED << cfgVars, files >>

\* ---------------------------------------------------------------- save_texts
OriginalFile(base) == << base, "__original.txt" >>
\* the second file named after a base other than the slug
IaFileOtherBase(base) == << base \o <<"_">>, "__ia.txt" >>

IaFile(base) == << base, "__ia.txt" >>

\* what a file may hold when write() fails part-way
Partial(text) ==
    { SubSeq(text, 1, k) : k \in 0..(IF Len(text) = 0 THEN 0 ELSE Len(text) - 1) }

\* open(name, "w") and f.write(text)
WriteFile(name, text) == (name :> text) @@ files

\* lines 204-207: ensure_dir, slugify, the first file
SaveOriginal ==
    /\ pc = "save_original"
    /\ LET base == slugify(norm_title)
       IN  \/ /\ files' = WriteFile(OriginalFile(base), original_text)
              /\ pc' = "save_ia"
              /\ UNCHANGED << idx, results, wikiVars, textVars, genVars, last_err >>
           \/ /\ UNCHANGED files
              /\ FailTopic("os_error")
           \/ /\ \E part \in Partial(original_text) :
                    files' = WriteFile(OriginalFile(base), part)
              /\ FailTopic("os_error")
    /\ UNCHANGED << cfgVars, clockVars >>

\* lines 208-210: the second file; the topic is done
SaveIa ==
    /\ pc = "save_ia"
    /\ LET base == slugify(norm_title)
       IN  \/ /\ files' = WriteFile(IaFile(base), generated)
              /\ results' = Append(results, [status |-> "saved", slug |-> base])
              /\ UNCHANGED last_err
              /\ NextTopic
           \/ /\ UNCHANGED files
              /\ FailTopic("os_error")
           \/ /\ \E part \in Partial(generated) :
                    files' = WriteFile(IaFile(base), part)
              /\ FailTopic("os_error")
    /\ UNCHANGED << cfgVars, clockVars >>

\* ------------------------------------------------------------ interruption
\* SIGINT: KeyboardInterrupt is raised wherever the program is; it is no
\* Exception, so the handlers of lines 169, 194 and 220 let it through and
\* main() ends with the traceback
Interrupt ==
    /\ pc \notin {"done", "config_error", "interrupted"}
    /\ pc' = "interrupted"
    /\ UNCHANGED << cfgVars, clockVars, idx, results, wikiVars, textVars,
                    genVars, last_err, files >>

Next ==
    \/ EnsureGemini
    \/ PickModel
    \/ StartTopic
    \/ EndRun
    \/ WikiGetFails
    \/ WikiGetOk
    \/ WikiSleep
    \/ ExtractDone
    \/ SearchDone
    \/ Throttle
    \/ GenerateReturns
    \/ GenerateRaises
    \/ RetrySleep
    \/ SaveOriginal
    \/ SaveIa

Spec == Init /\ [][Next]_vars

\* the run with SIGINT arriving at any moment
SpecInterrupt == Init /\ [][Next \/ Interrupt]_vars

\* the run with a prompt limit small enough for the texts to exceed it
InitSmallLimit ==
    /\ enforce = FALSE
    /\ rpm = FREE_TIER_RPM
    /\ max_chars \in 0..MaxLimit
    /\ InitProgram

SpecTruncate == InitSmallLimit /\ [][Next]_vars

\* the run of the shipped configuration (lines 12, 21, 22) with the
\* interpreter always taking the next step of the program: every call of a
\* service returns or raises (requests.get has timeout=20, line 73)
\* for an account whose usable models, if any, are in MODEL_PREF
InitShipped ==
    /\ enforce = TRUE
    /\ rpm = FREE_TIER_RPM
    /\ max_chars = MAX_CHARS_PROMPT
    /\ InitProgram
    /\ \A m \in models :
          m.generate => \E i \in 1..Len(MODEL_PREF) :
                            MODEL_PREF[i] = RemoveModelsPrefix(m.name)

SpecFair == InitShipped /\ [][Next]_vars /\ WF_vars(Next)

\* ===================================================================== claims

\* C1: with the throttle in force, a generate_content call is issued at least
\* 60 / rpm seconds after the previous one, whatever lies between them
\* (retries, the alternate prompt, the next topic's fetch).
C1_ThrottleSpacing ==
    (pc = "generate" /\ Throttling /\ sinceGen >= 0) => sinceGen >= MinInterval

\* the first request of the second topic goes out exactly 60 / 15 seconds
\* after the last request of the first: the throttle had to wait
C1_Witness ==
    /\ pc = "generate" /\ Throttling /\ rpm = FREE_TIER_RPM
    /\ idx = 2 /\ attempt = 1 /\ variant = "primary"
    /\ sinceGen = MinInterval

\* C2: the alternate prompt starts only out of the primary loop's wait after
\* its last (MaxRetries-th) failed attempt, and never gives way to the primary
\* prompt again; the rewrite fails only out of the alternate loop's wait after
\* its last failed attempt; a returned text leaves the rewrite at once, with
\* no further request for the topic.
C2_Step ==
    /\ (variant = "primary" /\ variant' = "alternate")
          => (pc = "retry_sleep" /\ attempt = MaxRetries /\ attempt' = 1)
    /\ variant = "alternate" => variant' \in {"alternate", None}
    /\ (variant # None /\ variant' = None /\ pc \notin {"save_original", "save_ia"})
          => (variant = "alternate" /\ pc = "retry_sleep" /\ attempt = MaxRetries
              /\ last_err' = "gen_exhausted")
    /\ (results' # results /\ last_err' = "gen_exhausted")
          => (variant = "alternate" /\ pc = "retry_sleep" /\ attempt = MaxRetries)
    /\ pc' = "save_original" => (pc = "generate" /\ variant' = variant)
    /\ pc \in {"save_original", "save_ia"}
          => pc' \in {"save_ia", "main_loop"}

C2_AlternateOnce == [][C2_Step]_vars

\* the alternate prompt was tried and its text is about to be saved
C2_Witness == pc = "save_original" /\ variant = "alternate" /\ attempt = MaxRetries

\* C3: after a failed attempt whose message holds "retry in <N>s", retry_s (the
\* time slept before the loop goes on) is N, at every attempt number, also
\* for N above the 60 s cap and below the exponential value.
HintedMessages ==
    (<<Txt, KW, WS, Num(0), S>> :> 0) @@
    (<<KWU, WS, WS, Num(61), S, Txt>> :> 488) @@
    (<<KW, WS, Num(12), Dot, Num(5), S>> :> 100)

C3_HintVerbatim ==
    (pc = "retry_sleep" /\ msg \in DOMAIN HintedMessages)
        => retry_s = HintedMessages[msg]

\* a hint of 61 s, above the cap, at the last attempt of the alternate loop
C3_Witness ==
    /\ pc = "retry_sleep" /\ msg = <<KWU, WS, WS, Num(61), S, Txt>>
    /\ attempt = MaxRetries /\ variant = "alternate"
    /\ retry_s = Seconds(61)

\* C4: after a failed attempt whose message holds no hint, retry_s is
\* min(2^(n-1), 60) seconds for attempt n: 1, 2, 4, 8, 16, 32, never above
\* 60 and never below the wait of attempt n - 1.
UnhintedMessages == { <<Txt>>, <<KW, WS, Num(5), WS, S>> }

BackoffSeconds == << 1, 2, 4, 8, 16, 32 >>

C4_Backoff ==
    (pc = "retry_sleep" /\ msg \in UnhintedMessages)
        => /\ retry_s = Seconds(BackoffSeconds[attempt])
           /\ retry_s <= Seconds(60)
           /\ attempt > 1 => retry_s >= Seconds(BackoffSeconds[attempt - 1])

\* the sixth failure without a hint waits 32 s
C4_Witness ==
    /\ pc = "retry_sleep" /\ msg = <<Txt>> /\ attempt = MaxRetries
    /\ retry_s = Seconds(32)

\* the topic that ended last
LastResult == results[Len(results)]

\* C5: whatever stage of a topic fails, the loop of main() goes on with the
\* next topic: topics are started in list order, each ends exactly once, the
\* run is over only when all have ended, and a topic whose stages succeed
\* ends with both its texts on disk, whatever happened to the topics before.
C5_Inv ==
    /\ Len(results) = idx - 1
    /\ pc = "done" => Len(results) = Len(articles)
    /\ pc \notin {"main_loop", "done"} => idx \in 1..Len(articles)

C5_Step ==
    /\ (pc = "main_loop" /\ pc' = "wiki_get") => title' = articles[idx]
    /\ results' # results
          => /\ Len(results') = Len(results) + 1
             /\ SubSeq(results', 1, Len(results)) = results
             /\ idx' = idx + 1
             /\ pc' = "main_loop"
             /\ results'[Len(results')].status = "saved"
                   => LET base == results'[Len(results')].slug
                      IN  /\ OriginalFile(base) \in DOMAIN files'
                          /\ IaFile(base) \in DOMAIN files'
                          /\ files'[OriginalFile(base)] = original_text
                          /\ files'[IaFile(base)] = generated

C5_BatchContinues == []C5_Inv /\ [][C5_Step]_vars

\* the run is over, the first topic failed and the second was saved
C5_Witness ==
    /\ pc = "done" /\ Len(results) >= 2
    /\ results[1].status = "failed" /\ results[2].status = "saved"

\* C6: when a topic has ended as saved, both files of its slug exist and
\* neither is empty.
C6_PairNonEmpty ==
    (pc = "main_loop" /\ results # <<>> /\ LastResult.status = "saved")
        => LET base == LastResult.slug
           IN  /\ OriginalFile(base) \in DOMAIN files
               /\ IaFile(base) \in DOMAIN files
               /\ files[OriginalFile(base)] # <<>>
               /\ files[IaFile(base)] # <<>>

C8_NeverEmpty == pc = "save_original" => generated # <<>>

\* C9: one fetch calls search_wikipedia_title at most once.
C9_OneSearch == searches <= 1

\* C10: when the search has no title, the topic ends there with the not-found
\* failure logged, nothing of the lookup is left to go on with, and main()
\* never comes back to a topic it has left.
C10_Step ==
    /\ (pc = "search_done" /\ data.titles = <<>>)
          => /\ pc' = "main_loop"
             /\ idx' = idx + 1
             /\ last_err' = "not_found"
             /\ results' = Append(results, [status |-> "failed", slug |-> NoText])
             /\ wiki_kind' = None /\ wiki_i' = 0 /\ searches' = 0
             /\ title' = NoText
    /\ idx' >= idx

C10_NotFoundFatal == [][C10_Step]_vars

\* the first topic ended as not found and the loop is at the second
C10_Witness == pc = "main_loop" /\ idx = 2 /\ last_err = "not_found"

\* ---------------------------------------------------------------------- C11
\* the stages that come after a fetch has returned an article
AfterFetch == {"throttle", "generate", "retry_sleep", "save_original", "save_ia"}

C11_Inv == pc \in AfterFetch => original_text # <<>>

C11_Step ==
    (pc = "extract_done" /\ data.pages = "found" /\ data.extract = <<>>)
        => /\ pc' = "main_loop"
           /\ last_err' = "no_content"
           /\ results' = Append(results, [status |-> "failed", slug |-> NoText])
           /\ files' = files
           /\ sinceGen' = sinceGen

\* C11: the article a fetch returns has a non-empty body: every stage after
\* the fetch works on a non-empty original text, and a page that is found with
\* an empty or missing extract fails the topic at once, with no generation
\* request and no file written for it.
C11_BodyNonEmpty == []C11_Inv /\ [][C11_Step]_vars

C11_Witness ==
    /\ pc = "main_loop"
    /\ last_err = "no_content"
    /\ LastResult.status = "failed"

\* ---------------------------------------------------------------------- C12
\* 1.5 s, 2.25 s and 3.375 s in ticks
C12_Waits == << 12, 18, 27 >>

C12_Inv == pc \in {"wiki_get", "wiki_sleep"} => wiki_i \in 0..2

C12_Step ==
    /\ pc = "wiki_get" => pc' \in {"wiki_sleep", "extract_done", "search_done"}
    /\ (pc = "wiki_get" /\ pc' = "wiki_sleep") => wiki_i' = wiki_i
    /\ (pc # "wiki_sleep" /\ pc' = "wiki_get") => wiki_i' = 0
    /\ pc = "wiki_sleep"
          => /\ sinceGen >= 0 => sinceGen' = Min(sinceGen + C12_Waits[wiki_i + 1], MaxElapsed)
             /\ elapsed' = Min(elapsed + C12_Waits[wiki_i + 1], MaxElapsed)
             /\ IF wiki_i < 2
                THEN pc' = "wiki_get" /\ wiki_i' = wiki_i + 1
                ELSE /\ pc' = "main_loop"
                     /\ last_err' = "wiki_exhausted"
                     /\ Len(results') = Len(results) + 1

\* C12: one request to the article service is tried at most 3 times: an
\* answer ends it with no further attempt, a failed attempt is followed by a
\* wait of 1.5, 2.25 and 3.375 seconds for the first, second and third
\* failure, and the third failure in a row fails the call without a fourth
\* attempt.
C12_WikiRetries == []C12_Inv /\ [][C12_Step]_vars

C12_Witness ==
    /\ pc = "wiki_sleep"
    /\ wiki_i = WikiRetries - 1
    /\ sinceGen >= 0
    /\ sinceGen < MaxElapsed

\* ---------------------------------------------------------------------- C13
C13_Step ==
    /\ pc = "retry_sleep"
          => \/ pc' = "throttle"
             \/ /\ pc' = "main_loop"
                /\ idx' = idx + 1
                /\ results' = Append(results, [status |-> "failed", slug |-> NoText])
    /\ pc' = "interrupted" => pc # "save_ia"

\* C13: an interruption during a retry wait of the rewrite ends the wait and
\* fails the current topic only, the loop going on with the next topic; and
\* an interruption never stops a topic between the two files of its pair.
C13_InterruptFailsTopicOnly == [][C13_Step]_vars

\* ---------------------------------------------------------------------- C14
\* C14: two different topics of the list that were both saved have different
\* slugs, so neither pair of files was overwritten by the other topic.
C14_NoSlugCollision ==
    \A i, j \in 1..Len(results) :
        (/\ i < j
         /\ articles[i] # articles[j]
         /\ results[i].status = "saved"
         /\ results[j].status = "saved")
            => results[i].slug # results[j].slug

\* ---------------------------------------------------------------------- C15
KeyAbsent == api_key \in {None, ""}

NoUsableModel == \A m \in models : ~m.generate

\* nothing of any topic has happened
NothingDone ==
    /\ idx = 1
    /\ results = <<>>
    /\ files = << >>
    /\ sinceGen = -1
    /\ requests = NoRequests
    /\ title = NoText
    /\ searches = 0
    /\ wiki_kind = None

C15_Inv ==
    /\ (KeyAbsent \/ NoUsableModel) => pc \in {"start", "pick_model", "config_error"}
    /\ pc \in {"start", "pick_model", "config_error"} => NothingDone

C15_Step ==
    /\ pc = "config_error" => FALSE
    /\ (pc = "start" /\ KeyAbsent) => pc' = "config_error"
    /\ (pc = "pick_model" /\ NoUsableModel) => pc' = "config_error"

\* C15: without an API key, or without a model that supports generation, the
\* run ends at startup in the configuration error: nothing is retried, no
\* topic is started, no page is fetched, no generation request is issued and
\* no file is written.
C15_ConfigErrorFatal == []C15_Inv /\ [][C15_Step]_vars

C15_Witness ==
    /\ pc = "config_error"
    /\ api_key = "k"
    /\ models # {}

\* ---------------------------------------------------------------------- C16
C16_Inv ==
    /\ requests["primary"] <= MaxRetries
    /\ requests["alternate"] <= MaxRetries
    /\ requests["primary"] + requests["alternate"] <= 2 * MaxRetries
    /\ pc \in {"generate", "retry_sleep"} => variant \in {"primary", "alternate"}
    /\ pc = "generate" => requests[variant] = attempt - 1
    /\ pc = "retry_sleep" => requests[variant] = attempt
    /\ requests["alternate"] > 0 => requests["primary"] = MaxRetries

C16_Step ==
    /\ (pc = "retry_sleep" /\ requests[variant] = MaxRetries /\ variant = "primary")
          => pc' = "throttle" /\ variant' = "alternate"
    /\ (pc = "retry_sleep" /\ requests[variant] = MaxRetries /\ variant = "alternate")
          => pc' = "main_loop" /\ last_err' = "gen_exhausted"
    /\ (pc = "retry_sleep" /\ requests[variant] < MaxRetries)
          => pc' = "throttle" /\ variant' = variant

\* C16: an attempt loop issues at most MaxRetries = 6 requests for its prompt
\* and gives up after the 6th failure in a row (the primary loop by handing
\* over to the alternate prompt, the alternate loop by failing the rewrite),
\* so one rewrite issues at most 12 requests whatever the service answers.
C16_RequestCeiling == []C16_Inv /\ [][C16_Step]_vars

C16_Witness ==
    /\ pc = "retry_sleep"
    /\ requests["primary"] = 6
    /\ requests["alternate"] = 6

\* ---------------------------------------------------------------------- C17
\* the rewrite gives up on the loop of the current prompt
C17_GivesUp ==
    \/ variant = "primary" /\ variant' = "alternate"
    \/ results' # results /\ last_err' = "gen_exhausted"

C17_Step ==
    /\ pc = "retry_sleep" => pc' = "throttle" /\ variant' = variant
    /\ C17_GivesUp => elapsed' = elapsed /\ sinceGen' = sinceGen
    /\ (variant = "primary" /\ variant' = "alternate") => attempt' = 1

\* C17: every retry wait is followed by another request with the same prompt;
\* giving up on a prompt takes no wait; and the loop of the alternate prompt
\* counts its attempts from 1 up to the same ceiling.
C17_WaitThenRetry == [](attempt <= MaxRetries) /\ [][C17_Step]_vars

\* ---------------------------------------------------------------------- C18
\* the stage a position of the program belongs to: 0 between topics,
\* 1 resolve, 2 rewrite, 3 persist
C18_Stage(p) ==
    CASE p \in {"wiki_get", "wiki_sleep", "extract_done", "search_done"} -> 1
      [] p \in {"throttle", "generate", "retry_sleep"} -> 2
      [] p \in {"save_original", "save_ia"} -> 3
      [] OTHER -> 0

C18_Inv ==
    /\ Len(results) = idx - 1
    /\ C18_Stage(pc) = 0 => original_text = NoText /\ requests = NoRequests
    /\ C18_Stage(pc) = 1 => original_text = NoText /\ requests = NoRequests
    /\ C18_Stage(pc) >= 2 => norm_title # NoText /\ original_text # NoText
    /\ C18_Stage(pc) = 3 => requests["primary"] + requests["alternate"] > 0

C18_Step ==
    /\ C18_Stage(pc') \in {C18_Stage(pc), C18_Stage(pc) + 1, 0}
    /\ C18_Stage(pc) = 0 => C18_Stage(pc') \in {0, 1}
    /\ requests' # requests => \/ C18_Stage(pc) = 2
                               \/ C18_Stage(pc') = 0 /\ requests' = NoRequests
    /\ sinceGen' < sinceGen => pc = "generate"
    /\ files' # files => C18_Stage(pc) = 3
    /\ idx' # idx => /\ idx' = idx + 1
                     /\ C18_Stage(pc) # 0
                     /\ pc' = "main_loop"
    /\ (C18_Stage(pc) \in {1, 2} /\ C18_Stage(pc') = 0)
          => /\ files' = files
             /\ results' = Append(results, [status |-> "failed", slug |-> NoText])

\* C18: a topic goes through resolve, rewrite and persist in this order and
\* is over before the next one starts: requests are issued only in the
\* rewrite stage, on a resolved article; files are written only in the
\* persist stage, which is entered from a request that returned; and a topic
\* that fails in resolve or rewrite ends there with nothing written.
C18_StageOrder == []C18_Inv /\ [][C18_Step]_vars

C18_Witness ==
    /\ pc = "save_ia"
    /\ idx = 2
    /\ results[1].status = "failed"
    /\ requests["alternate"] > 0

\* ---------------------------------------------------------------------- C19
\* elapsed is the time since _last_call_ts was written: a write sets it back,
\* and without a write it only grows by the time that passes
C19_Disabled == ~enforce \/ rpm <= 0

C19_Inv == C19_Disabled => elapsed = MaxElapsed

C19_Step ==
    /\ (pc = "throttle" /\ C19_Disabled)
          => elapsed' = elapsed /\ sinceGen' = sinceGen /\ pc' = "generate"
    /\ pc \notin {"throttle", "generate", "wiki_sleep", "retry_sleep"}
          => elapsed' = elapsed
    /\ pc = "generate" => \E d \in Latencies : elapsed' = Min(elapsed + d, MaxElapsed)
    /\ pc = "wiki_sleep" => elapsed' = Min(elapsed + WikiBackoff(wiki_i), MaxElapsed)
    /\ pc = "retry_sleep" => elapsed' = Min(elapsed + retry_s, MaxElapsed)

\* C19: with the throttle disabled (flag off, or a rate of 0 or less) a call
\* of the throttle takes no time and does not write _last_call_ts, which
\* keeps its initial value for the whole run; and in every configuration no
\* step other than the throttle writes it: outside the throttle the time
\* since the last write only grows, by exactly the time the step takes.
C19_ThrottleOnlyWriter == []C19_Inv /\ [][C19_Step]_vars

C19_Witness ==
    /\ ~enforce
    /\ pc = "generate"
    /\ attempt = 2
    /\ idx = 2

\* ---------------------------------------------------------------------- C20
\* the text the claim has passed to the prompt for an article text and a limit
C20_Expected(text, limit) ==
    IF Len(text) <= limit
    THEN text
    ELSE [i \in 1..(limit + 5) |->
             IF i <= limit THEN text[i] ELSE <<"\n", "\n", "[", "T", "]">>[i - limit]]

\* C20: the text of the prompt is the article text itself when that is no
\* longer than the limit, and otherwise its first max_chars characters
\* followed by the truncation marker; the __original file, once written, holds
\* the full article text.
C20_Truncation ==
    /\ pc \in AfterFetch
          => /\ prompt_text = C20_Expected(original_text, max_chars)
             /\ Len(original_text) <= max_chars => prompt_text = original_text
             /\ Len(original_text) > max_chars
                   => /\ Len(prompt_text) = max_chars + Len(TruncationMarker)
                      /\ SubSeq(prompt_text, 1, max_chars)
                            = SubSeq(original_text, 1, max_chars)
    /\ pc = "save_ia"
          => files[OriginalFile(slugify(norm_title))] = original_text

C20_Witness ==
    /\ pc = "save_ia"
    /\ max_chars = 1
    /\ Len(original_text) = 2
    /\ prompt_text = <<"x", "\n", "\n", "[", "T", "]">>

\* ---------------------------------------------------------------------- C21
\* the stages before the loop of main()
C21_Startup == {"start", "pick_model", "config_error"}

\* the names of the listed models the account can generate with
C21_Supported == { SelectSeq(m.name, LAMBDA part : part # "models/") : m \in { x \in models : x.generate } }

\* C21: once startup is over, the selected model is an entry of the
\* preference list, the earliest one the account supports for generation.
C21_FromPreferenceList ==
    pc \notin C21_Startup
        => \E i \in 1..Len(MODEL_PREF) :
              /\ model_name = MODEL_PREF[i]
              /\ MODEL_PREF[i] \in C21_Supported
              /\ \A j \in 1..(i - 1) : MODEL_PREF[j] \notin C21_Supported

\* ---------------------------------------------------------------------- C22
\* main() has returned or has been left by the error of the startup
C22_Over == pc \in {"done", "config_error"}

\* the counters of one topic stay within their limits
C22_Bounded ==
    /\ idx \in 1..(Len(articles) + 1)
    /\ wiki_i \in 0..(WikiRetries - 1)
    /\ depth \in 0..RecursionLimit
    /\ searches \in 0..(RecursionLimit + 1)
    /\ requests["primary"] \in 0..MaxRetries
    /\ requests["alternate"] \in 0..MaxRetries

\* every topic of the list has its outcome
C22_AllEnded ==
    /\ Len(results) = Len(articles)
    /\ \A i \in 1..Len(results) : results[i].status \in {"saved", "failed"}

\* C22: whatever the two services answer, the run ends: the attempts of a
\* request to the article service, the searches and nested fetches of a topic
\* and the generation requests of a rewrite are bounded, each topic ends as
\* saved or failed, and after the last topic main() returns.
C22_Terminates ==
    /\ []C22_Bounded
    /\ [](pc = "done" => C22_AllEnded)
    /\ <>C22_Over

C22_Witness ==
    /\ pc = "done"
    /\ C22_AllEnded
    /\ last_err = "recursion"
    /\ results[1].status = "saved"

====
